---- MODULE Spec2Model ----
(***************************************************************************)
(* A model of exist.py, the randomized filesystem: the handlers access,    *)
(* getattr, readdir and statfs of class Exist, the dice-rolling helper     *)
(* _exists and the value helpers _size and _timestamp.                     *)
(*                                                                         *)
(* A path is a sequence of one-character strings.  The shared random       *)
(* source (module random) is a nondeterministic choice: random.random()    *)
(* returns k / 2^53 for an integer 0 <= k < 2^53; the model keeps the      *)
(* shape and scales the width down to RandBits bits, so a draw is the      *)
(* integer k standing for k / 2^RandBits.                                  *)
(***************************************************************************)
EXTENDS Integers, Sequences, FiniteSets

VARIABLES call, ret, oracle, rng, uid, gid, thr

vars == <<call, ret, oracle, rng, uid, gid, thr>>

-----------------------------------------------------------------------------
(* Bounds of the model. *)

\* width of one draw of random.random(), scaled down from 53 bits
RandBits == 2

\* longest file name generated after a directory prefix
MaxNameLen == 3

\* worker threads of the host binding in the concurrent specification
NumThreads == 2

-----------------------------------------------------------------------------
(* Program constants. *)

\* os.W_OK, the write bit of an access mode
W_OK == 2

\* stat.S_IFDIR | 0o775
S_IFDIR_775 == 16893

\* the upper argument of random.randint in _size
SizeMax == 2^30

-----------------------------------------------------------------------------
(* Strings. *)

ROOT == <<"/">>

EXIST == <<"/", "e", "x", "i", "s", "t">>

EXIST_SLASH == <<"/", "e", "x", "i", "s", "t", "/">>

DOT == <<".">>

DOTDOT == <<".", ".">>

EXIST_NAME == <<"e", "x", "i", "s", "t">>

\* the characters file names are built from
Alphabet == {"0", "1", "5", "9", ".", "-", "e", "a", "n"}

Names == UNION {[1..n -> Alphabet] : n \in 0..MaxNameLen}

Prefixes == {EXIST_SLASH, EXIST, ROOT}

Paths == {pre \o name : pre \in Prefixes, name \in Names}

\* path[:n]
Take(s, n) == SubSeq(s, 1, IF Len(s) < n THEN Len(s) ELSE n)

\* path[n:]
Drop(s, n) == SubSeq(s, n + 1, Len(s))

-----------------------------------------------------------------------------
(* float(filename): Python's string-to-float conversion, on strings of     *)
(* signs, decimal digits, ".", "e"/"E" and letters.  The result is         *)
(*   [kind |-> "error"]  ValueError                                        *)
(*   [kind |-> "nan"], [kind |-> "inf"]                                    *)
(*   [kind |-> "num"]    the number (-1)^neg * m * 10^x                    *)
(* A decimal numeral of a few characters is kept exactly: the rounding to  *)
(* a double is monotonic and fixes 0, 1 and every draw, so it changes no   *)
(* comparison made below.                                                  *)

Digit == {"0", "1", "2", "3", "4", "5", "6", "7", "8", "9"}

DigitChars == <<"0", "1", "2", "3", "4", "5", "6", "7", "8", "9">>

DigitVal(c) == (CHOOSE i \in 1..10 : DigitChars[i] = c) - 1

IsDigits(s) == Len(s) > 0 /\ \A i \in 1..Len(s) : s[i] \in Digit

RECURSIVE DigitsVal(_)
DigitsVal(s) ==
    IF Len(s) = 0 THEN 0
    ELSE DigitsVal(SubSeq(s, 1, Len(s) - 1)) * 10 + DigitVal(s[Len(s)])

\* index of the first character of s that is in cs, or 0
FirstIndex(s, cs) ==
    IF \E i \in 1..Len(s) : s[i] \in cs
    THEN CHOOSE i \in 1..Len(s) : s[i] \in cs /\ \A j \in 1..(i - 1) : s[j] \notin cs
    ELSE 0

ValueError == [kind |-> "error", neg |-> FALSE, m |-> 0, x |-> 0]

NaN == [kind |-> "nan", neg |-> FALSE, m |-> 0, x |-> 0]

Inf(neg) == [kind |-> "inf", neg |-> neg, m |-> 0, x |-> 0]

Num(neg, m, x) == [kind |-> "num", neg |-> neg, m |-> m, x |-> x]

\* [sign] digits: the exponent after "e"; <<ok, value>>
ParseExponent(s) ==
    LET signed == Len(s) > 0 /\ s[1] \in {"+", "-"}
        ds == IF signed THEN Drop(s, 1) ELSE s
    IN  IF ~IsDigits(ds) THEN <<FALSE, 0>>
        ELSE <<TRUE, IF signed /\ s[1] = "-" THEN 0 - DigitsVal(ds) ELSE DigitsVal(ds)>>

\* digits [. [digits]] | . digits, each optionally followed by an exponent
ParseDecimal(neg, s) ==
    LET e == FirstIndex(s, {"e", "E"})
        mant == IF e = 0 THEN s ELSE Take(s, e - 1)
        ex == IF e = 0 THEN <<TRUE, 0>> ELSE ParseExponent(Drop(s, e))
        d == FirstIndex(mant, {"."})
        int == IF d = 0 THEN mant ELSE Take(mant, d - 1)
        frac == IF d = 0 THEN <<>> ELSE Drop(mant, d)
        wellformed ==
            /\ ex[1]
            /\ Len(int) + Len(frac) > 0
            /\ Len(int) > 0 => IsDigits(int)
            /\ Len(frac) > 0 => IsDigits(frac)
    IN  IF wellformed
        THEN Num(neg, DigitsVal(int \o frac), ex[2] - Len(frac))
        ELSE ValueError

float(s) ==
    LET signed == Len(s) > 0 /\ s[1] \in {"+", "-"}
        neg == signed /\ s[1] = "-"
        body == IF signed THEN Drop(s, 1) ELSE s
    IN  IF body = <<"n", "a", "n">> THEN NaN
        ELSE IF body \in {<<"i", "n", "f">>, <<"i", "n", "f", "i", "n", "i", "t", "y">>}
        THEN Inf(neg)
        ELSE ParseDecimal(neg, body)

RECURSIVE Pow10Cap(_, _)
\* min(10^n, cap), for cap >= 1, without leaving the machine integers
Pow10Cap(n, cap) ==
    IF n = 0 THEN 1
    ELSE LET q == Pow10Cap(n - 1, cap)
         IN  IF q * 10 >= cap THEN cap ELSE q * 10

\* 0 <= p
ZeroLeq(p) ==
    CASE p.kind = "num" -> p.m = 0 \/ ~p.neg
      [] p.kind = "inf" -> ~p.neg
      [] OTHER -> FALSE

\* a variant of LeqOne that leaves the upper end open
LeqOne_unbounded(p) == p.kind \in {"num", "inf"}

\* p <= 1
LeqOne(p) ==
    CASE p.kind = "num" ->
            \/ p.m = 0
            \/ p.neg
            \/ IF p.x >= 0 THEN p.m = 1 /\ p.x = 0
               ELSE Pow10Cap(0 - p.x, p.m) = p.m
      [] p.kind = "inf" -> p.neg
      [] OTHER -> FALSE

-----------------------------------------------------------------------------
(* The random source. *)

RandDenom == 2^RandBits

\* the values of random.random(): k stands for k / RandDenom, in [0, 1)
Draws == 0..(RandDenom - 1)

MaxDraw == RandDenom - 1

NoDraw == 0 - 1

\* a variant of RandLeq with the strict comparison rand < probability
RandLt(rand, p) ==
    IF p.m = 0 THEN FALSE
    ELSE IF p.x >= 0 THEN TRUE
    ELSE Pow10Cap(0 - p.x, p.m * RandDenom + 1) * rand < p.m * RandDenom

\* rand <= probability, for a probability with 0 <= probability <= 1
RandLeq(rand, p) ==
    IF p.m = 0 THEN rand = 0
    ELSE IF p.x >= 0 THEN TRUE
    ELSE rand = 0 \/ Pow10Cap(0 - p.x, p.m * RandDenom + 1) <= (p.m * RandDenom) \div rand

-----------------------------------------------------------------------------
(* The helpers of class Exist. *)

Verdict(r, n, k) == [ret |-> r, draws |-> n, rand |-> k]

\* a variant of _exists that knows "/" alone as always existing
_exists_rootonly(path, rand) ==
    IF path = ROOT THEN Verdict(TRUE, 0, NoDraw)
    ELSE IF Take(path, 7) # EXIST_SLASH THEN Verdict(FALSE, 0, NoDraw)
    ELSE LET probability == float(Drop(path, 7))
         IN  IF probability.kind = "error" THEN Verdict(FALSE, 0, NoDraw)
             ELSE IF ~(ZeroLeq(probability) /\ LeqOne(probability))
             THEN Verdict(FALSE, 0, NoDraw)
             ELSE Verdict(RandLeq(rand, probability), 1, rand)

\* a variant of _exists that rolls no dice: a well-formed entry exists
_exists_nodice(path, rand) ==
    IF path \in {ROOT, EXIST} THEN Verdict(TRUE, 0, NoDraw)
    ELSE IF Take(path, 7) # EXIST_SLASH THEN Verdict(FALSE, 0, NoDraw)
    ELSE LET probability == float(Drop(path, 7))
         IN  IF probability.kind = "error" THEN Verdict(FALSE, 0, NoDraw)
             ELSE IF ~(ZeroLeq(probability) /\ LeqOne(probability))
             THEN Verdict(FALSE, 0, NoDraw)
             ELSE Verdict(TRUE, 0, NoDraw)

\* a variant of _exists that draws before it looks at the path
_exists_eager(path, rand) ==
    IF path \in {ROOT, EXIST} THEN Verdict(TRUE, 1, rand)
    ELSE IF Take(path, 7) # EXIST_SLASH THEN Verdict(FALSE, 1, rand)
    ELSE LET probability == float(Drop(path, 7))
         IN  IF probability.kind = "error" THEN Verdict(FALSE, 1, rand)
             ELSE IF ~(ZeroLeq(probability) /\ LeqOne(probability))
             THEN Verdict(FALSE, 1, rand)
             ELSE Verdict(RandLeq(rand, probability), 1, rand)

\* _exists(path), where rand is the value random.random() returns if it is
\* called; draws counts the calls of random.random() made on the way
_exists(path, rand) ==
    IF path \in {ROOT, EXIST} THEN Verdict(TRUE, 0, NoDraw)
    ELSE IF Take(path, 7) # EXIST_SLASH THEN Verdict(FALSE, 0, NoDraw)
    ELSE LET filename == Drop(path, 7)
             probability == float(filename)
         IN  IF probability.kind = "error" THEN Verdict(FALSE, 0, NoDraw)
             ELSE IF ~(ZeroLeq(probability) /\ LeqOne(probability))
             THEN Verdict(FALSE, 0, NoDraw)
             ELSE Verdict(RandLeq(rand, probability), 1, rand)

\* the values of random.randint(0, 2**30) the model draws: both ends of the
\* range and the value next to the upper end
SizeSamples == {0, SizeMax - 1, SizeMax}

\* a variant of _size that is one too large
_size_next(n) == n + 1

\* _size(), where n is the value random.randint returns
_size(n) == n

\* the draws of random.random() the model takes for a timestamp: both ends
TimeDraws == {0, MaxDraw}

\* the readings of time.time(), in seconds
Clock == {1000}

\* _timestamp(): random.uniform(0, now) is 0 + (now - 0) * random.random(),
\* kept as the exact fraction num / den of a second
_timestamp(now, rand) == [num |-> (now - 0) * rand, den |-> RandDenom]

RECURSIVE FracDigits(_, _)
\* the n-digit decimal numeral of v, zero-padded on the left
FracDigits(v, n) ==
    IF n = 0 THEN <<>>
    ELSE Append(FracDigits(v \div 10, n - 1), DigitChars[(v % 10) + 1])

RECURSIVE StripZeros(_)
\* without the trailing zeros, but for one digit
StripZeros(s) ==
    IF Len(s) > 1 /\ s[Len(s)] = "0" THEN StripZeros(SubSeq(s, 1, Len(s) - 1)) ELSE s

\* str(random.random()): the shortest decimal numeral that reads back as the
\* float, which for rand / 2^RandBits is its exact decimal expansion
\* rand * 5^RandBits / 10^RandBits (fixed notation: the value is 0 or >= 1e-4)
str(rand) == <<"0", ".">> \o StripZeros(FracDigits(rand * 5^RandBits, RandBits))

\* mode & bit, for a single bit
BitAnd(mode, bit) == ((mode \div bit) % 2) * bit

-----------------------------------------------------------------------------
(* The state.                                                              *)
(*   call    the handler the host binding is in, with its arguments        *)
(*   ret     what the handler returned or raised                           *)
(*   oracle  what _exists did during the call                              *)
(*   rng     the values taken from the shared random source in the call    *)
(*   uid, gid  os.getuid(), os.getgid() of the process                     *)
(*   thr     the worker threads of the concurrent specification            *)

Modes == 0..7

Uids == {0, 1000}

Gids == {100}

\* the paths statfs is called with
StatfsPaths == {ROOT, EXIST_SLASH \o <<".", "5">>}

StatfsKeys == {"f_bavail", "f_bfree", "f_blocks", "f_bsize", "f_favail", "f_ffree",
               "f_files", "f_flag", "f_frsize", "f_namemax"}

Threads == 1..NumThreads

None == <<>>

Idle == [op |-> "idle", path |-> <<>>, mode |-> 0]

Ok(val) == [err |-> "OK", val |-> val]

\* raise FuseOSError(errno)
FuseOSError(errno) == [err |-> errno, val |-> None]

NoOracle == [called |-> FALSE, ret |-> FALSE, draws |-> 0, rand |-> NoDraw]

Consulted(v) == [called |-> TRUE, ret |-> v.ret, draws |-> v.draws, rand |-> v.rand]

IdleThread == [pc |-> "idle", op |-> "idle", path |-> <<>>, mode |-> 0, err |-> "OK", left |-> 0]

Init ==
    /\ call = Idle
    /\ ret = Ok(None)
    /\ oracle = NoOracle
    /\ rng = 0
    /\ uid \in Uids
    /\ gid \in Gids
    /\ thr = [t \in Threads |-> IdleThread]

-----------------------------------------------------------------------------
(* The handlers, each one whole call. *)

access(path, mode) ==
    /\ call' = [op |-> "access", path |-> path, mode |-> mode]
    /\ IF path \in {ROOT, EXIST}
       THEN ret' = Ok(None) /\ oracle' = NoOracle /\ rng' = 0
       ELSE IF BitAnd(mode, W_OK) # 0
       THEN ret' = FuseOSError("EACCES") /\ oracle' = NoOracle /\ rng' = 0
       ELSE \E rand \in Draws :
                LET v == _exists(path, rand)
                IN  /\ oracle' = Consulted(v)
                    /\ rng' = v.draws
                    /\ ret' = IF ~v.ret THEN FuseOSError("EACCES") ELSE Ok(None)
    /\ UNCHANGED <<uid, gid, thr>>

getattr(path) ==
    /\ call' = [op |-> "getattr", path |-> path, mode |-> 0]
    /\ \E rand \in Draws :
           LET v == _exists(path, rand)
           IN  /\ oracle' = Consulted(v)
               /\ IF ~v.ret
                  THEN ret' = FuseOSError("ENOENT") /\ rng' = v.draws
                  ELSE \E na, nc, nm \in Clock, ra, rc, rm \in TimeDraws, n \in SizeSamples :
                           /\ ret' = Ok([st_atime |-> _timestamp(na, ra),
                                         st_ctime |-> _timestamp(nc, rc),
                                         st_mtime |-> _timestamp(nm, rm),
                                         st_gid |-> gid,
                                         st_uid |-> uid,
                                         st_mode |-> S_IFDIR_775,
                                         st_nlink |-> 1,
                                         st_size |-> _size(n)])
                           /\ rng' = v.draws + 4
    /\ UNCHANGED <<uid, gid, thr>>

\* a variant of readdir that lists the root for every path
readdir_static(path) ==
    /\ call' = [op |-> "readdir", path |-> path, mode |-> 0]
    /\ oracle' = NoOracle
    /\ ret' = Ok(<<DOT, DOTDOT, EXIST_NAME>>)
    /\ rng' = 0
    /\ UNCHANGED <<uid, gid, thr>>

readdir(path) ==
    /\ call' = [op |-> "readdir", path |-> path, mode |-> 0]
    /\ oracle' = NoOracle
    /\ IF path = ROOT
       THEN ret' = Ok(<<DOT, DOTDOT, EXIST_NAME>>) /\ rng' = 0
       ELSE \E rand \in Draws :
                /\ ret' = Ok(<<DOT, DOTDOT, str(rand)>>)
                /\ rng' = 1
    /\ UNCHANGED <<uid, gid, thr>>

statfs(path) ==
    /\ call' = [op |-> "statfs", path |-> path, mode |-> 0]
    /\ oracle' = NoOracle
    /\ \E f \in [StatfsKeys -> SizeSamples] :
           ret' = Ok([key \in StatfsKeys |-> _size(f[key])])
    /\ rng' = 10
    /\ UNCHANGED <<uid, gid, thr>>

\* __call__ hands the result to the host binding; nothing of the call is kept
Return ==
    /\ call.op # "idle"
    /\ call' = Idle
    /\ ret' = Ok(None)
    /\ oracle' = NoOracle
    /\ rng' = 0
    /\ UNCHANGED <<uid, gid, thr>>

\* the host binding calls one handler at a time
Next ==
    \/ call.op = "idle" /\ \E path \in Paths, mode \in Modes : access(path, mode)
    \/ call.op = "idle" /\ \E path \in Paths : getattr(path)
    \/ call.op = "idle" /\ \E path \in Paths : readdir(path)
    \/ call.op = "idle" /\ \E path \in StatfsPaths : statfs(path)
    \/ Return

Spec == Init /\ [][Next]_vars

-----------------------------------------------------------------------------
(* The concurrent specification: the host binding runs the handlers on     *)
(* NumThreads worker threads.  The handlers share nothing but the random   *)
(* source, and one draw from it is atomic (the interpreter lock); so a     *)
(* step of a thread is the code up to and including its next draw.  The    *)
(* class takes no lock (Lock is imported and never used).  A thread keeps  *)
(* its handler, arguments and outcome, not the values drawn.               *)

\* the paths of the concurrent queries: one entry whose probability is below
\* the largest draw and one whose probability is not
QueryPaths == {EXIST_SLASH \o <<".", "5">>, EXIST_SLASH \o <<".", "9">>}

ConcPaths == QueryPaths \cup {ROOT}

ConcModes == {0, W_OK}

\* _exists on the paths of the concurrent specification, tabulated once
ConcVerdicts == [path \in ConcPaths |-> [rand \in Draws |-> _exists(path, rand)]]

Called(op, path, mode) ==
    [pc |-> "called", op |-> op, path |-> path, mode |-> mode, err |-> "OK", left |-> 0]

Done(r, errno) == [r EXCEPT !.pc = "done", !.err = errno, !.left = 0]

\* a further n draws to make before the handler returns
Running(r, n) == [r EXCEPT !.pc = "run", !.left = n]

\* a worker thread takes a request and enters the handler
Invoke(t, op, path, mode) ==
    /\ thr[t].pc \in {"idle", "done"}
    /\ thr' = [thr EXCEPT ![t] = Called(op, path, mode)]
    /\ UNCHANGED <<call, ret, oracle, rng, uid, gid>>

\* access, whole: it draws at most once
t_access(t) ==
    LET r == thr[t]
    IN  /\ r.pc = "called" /\ r.op = "access"
        /\ IF r.path \in {ROOT, EXIST}
           THEN thr' = [thr EXCEPT ![t] = Done(r, "OK")]
           ELSE IF BitAnd(r.mode, W_OK) # 0
           THEN thr' = [thr EXCEPT ![t] = Done(r, "EACCES")]
           ELSE \E rand \in Draws :
                    thr' = [thr EXCEPT ![t] =
                               IF ~ConcVerdicts[r.path][rand].ret THEN Done(r, "EACCES")
                               ELSE Done(r, "OK")]
        /\ UNCHANGED <<call, ret, oracle, rng, uid, gid>>

\* getattr up to the verdict of _exists; the three timestamps and the size
\* are four more draws
t_getattr(t) ==
    LET r == thr[t]
    IN  /\ r.pc = "called" /\ r.op = "getattr"
        /\ \E rand \in Draws :
               thr' = [thr EXCEPT ![t] =
                          IF ~ConcVerdicts[r.path][rand].ret THEN Done(r, "ENOENT")
                          ELSE Running(r, 4)]
        /\ UNCHANGED <<call, ret, oracle, rng, uid, gid>>

\* readdir, whole: it draws at most once
t_readdir(t) ==
    LET r == thr[t]
    IN  /\ r.pc = "called" /\ r.op = "readdir"
        /\ thr' = [thr EXCEPT ![t] = Done(r, "OK")]
        /\ UNCHANGED <<call, ret, oracle, rng, uid, gid>>

\* statfs up to its first call of _size; nine more follow
t_statfs(t) ==
    LET r == thr[t]
    IN  /\ r.pc = "called" /\ r.op = "statfs"
        /\ thr' = [thr EXCEPT ![t] = Running(r, 9)]
        /\ UNCHANGED <<call, ret, oracle, rng, uid, gid>>

\* a variant of t_draw that takes its draw only while no other handler is
\* between two draws
t_draw_serial(t) ==
    LET r == thr[t]
    IN  /\ r.pc = "run"
        /\ \A u \in Threads \ {t} : thr[u].pc # "run"
        /\ thr' = [thr EXCEPT ![t] = IF r.left = 1 THEN Done(r, "OK")
                                     ELSE Running(r, r.left - 1)]
        /\ UNCHANGED <<call, ret, oracle, rng, uid, gid>>

\* one more draw of a handler under way; after the last one it returns
t_draw(t) ==
    LET r == thr[t]
    IN  /\ r.pc = "run"
        /\ thr' = [thr EXCEPT ![t] = IF r.left = 1 THEN Done(r, "OK")
                                     ELSE Running(r, r.left - 1)]
        /\ UNCHANGED <<call, ret, oracle, rng, uid, gid>>

Step(t) == t_access(t) \/ t_getattr(t) \/ t_readdir(t) \/ t_statfs(t) \/ t_draw(t)

NextConc ==
    \/ \E t \in Threads, path \in QueryPaths, mode \in ConcModes :
           Invoke(t, "access", path, mode)
    \/ \E t \in Threads, path \in QueryPaths : Invoke(t, "getattr", path, 0)
    \/ \E t \in Threads, path \in {ROOT, EXIST} : Invoke(t, "readdir", path, 0)
    \/ \E t \in Threads : Invoke(t, "statfs", ROOT, 0)
    \/ \E t \in Threads : t_access(t)
    \/ \E t \in Threads : t_getattr(t)
    \/ \E t \in Threads : t_readdir(t)
    \/ \E t \in Threads : t_statfs(t)
    \/ \E t \in Threads : t_draw(t)

\* scheduling does not depend on the identity of the process
InitConc == Init /\ uid = 0

\* the operating system runs every thread that can run
SpecConc == InitConc /\ [][NextConc]_vars /\ \A t \in Threads : WF_vars(Step(t))

-----------------------------------------------------------------------------
(* What the claims speak of. *)

Entry(name) == EXIST_SLASH \o name

\* the number p is in [0, 1]: it is zero, or positive with m <= 10^(-x)
\* (m has fewer than ten digits)
InUnitInterval(p) ==
    /\ p.kind = "num"
    /\ p.m = 0 \/ (~p.neg /\ p.x <= 0 /\ (p.x < 0 - 9 \/ p.m <= 10^(0 - p.x)))

\* the path is "/exist/<name>" and the name reads as a number in [0, 1]
ProbabilityEntry(path) ==
    /\ Len(path) >= 7
    /\ SubSeq(path, 1, 7) = EXIST_SLASH
    /\ InUnitInterval(float(SubSeq(path, 8, Len(path))))

Special(path) == path = ROOT \/ path = EXIST

\* neither "/" nor "/exist" nor a probability entry
Malformed(path) == ~Special(path) /\ ~ProbabilityEntry(path)

WriteIntent(mode) == mode \in {2, 3, 6, 7}

Queried == call.op \in {"access", "getattr"}

\* the call asked for the verdict of _exists and got v
Judged(v) ==
    /\ oracle.called
    /\ oracle.ret = v
    /\ call.op = "getattr" => ret.err = (IF v THEN "OK" ELSE "ENOENT")
    /\ call.op = "access" => ret.err = (IF v THEN "OK" ELSE "EACCES")

\* C1: access with write intent fails with EACCES for every path, "/" and
\* "/exist" included, whatever the random source yields.
C1_WriteIntentDenied ==
    (call.op = "access" /\ WriteIntent(call.mode)) => ret.err = "EACCES"

\* C2: for a malformed entry (a name that is no number, a number outside
\* [0, 1], a path outside "/exist/") the existence check is false for every
\* draw: getattr fails with ENOENT and access with EACCES, as for a path that
\* does not exist.
C2_MalformedNeverExists ==
    (Queried /\ Malformed(call.path)) =>
        /\ oracle.called => (~oracle.ret /\ oracle.draws = 0)
        /\ call.op = "getattr" => ret.err = "ENOENT"
        /\ call.op = "access" => ret.err = "EACCES"

\* getattr of "/exist/<number above 1>" has failed
C2_Witness ==
    /\ call.op = "getattr"
    /\ call.path \in {Entry(<<"5">>), Entry(<<"1", ".", "1">>), Entry(<<"1", "e", "1">>)}
    /\ ret.err = "ENOENT"

C4_RootAndExistAlwaysExist ==
    Special(call.path) =>
        /\ oracle.called => oracle.ret
        /\ call.op = "getattr" => ret.err = "OK"
        /\ (call.op = "access" /\ ~WriteIntent(call.mode)) => ret.err = "OK"

\* getattr of "/exist" has returned attributes
C4_Witness ==
    call.op = "getattr" /\ call.path = EXIST /\ oracle.called /\ ret.err = "OK"

\* C6 as stated: every value of the size distribution is in [0, 2^30): the
\* st_size of every successful getattr, and each of the ten fields of every
\* statfs result, all ten present.
C6_SizesBelowTwoTo30 ==
    /\ (call.op = "getattr" /\ ret.err = "OK") =>
           (ret.val.st_size >= 0 /\ ret.val.st_size < 2^30)
    /\ call.op = "statfs" =>
           /\ ret.err = "OK"
           /\ DOMAIN ret.val = StatfsKeys /\ Cardinality(StatfsKeys) = 10
           /\ \A key \in StatfsKeys : ret.val[key] >= 0 /\ ret.val[key] < 2^30

\* C6 as amended: every value of the size distribution is in the closed
\* range [0, 2^30].
C6_SizesUpToTwoTo30 ==
    /\ (call.op = "getattr" /\ ret.err = "OK") =>
           (ret.val.st_size >= 0 /\ ret.val.st_size <= 2^30)
    /\ call.op = "statfs" =>
           /\ ret.err = "OK"
           /\ DOMAIN ret.val = StatfsKeys /\ Cardinality(StatfsKeys) = 10
           /\ \A key \in StatfsKeys : ret.val[key] >= 0 /\ ret.val[key] <= 2^30

\* statfs has returned exactly 2^30 as the block size and 0 as a count
C6_Witness ==
    /\ call.op = "statfs"
    /\ ret.val.f_bsize = 2^30
    /\ ret.val.f_files = 0

\* "/exist/" [01] "." digit+, the format the docstring of Exist names
InFormat(path) ==
    /\ Len(path) >= 10
    /\ SubSeq(path, 1, 7) = EXIST_SLASH
    /\ path[8] \in {"0", "1"}
    /\ path[9] = "."
    /\ \A i \in 10..Len(path) : path[i] \in Digit

\* C7: a file whose path is not in the format exist/[01].<digits> never
\* exists: but for "/" and "/exist", every access and every getattr of such
\* a path fails.
C7_OnlyFormatNamesExist ==
    (Queried /\ ~Special(call.path) /\ ~InFormat(call.path)) => ret.err # "OK"

\* the text of a value k / RandDenom of random.random()
IsDrawText(s) ==
    LET p == float(s)
    IN  /\ p.kind = "num" /\ ~p.neg
        /\ p.x <= 0 /\ p.x >= 0 - 6
        /\ \E k \in Draws : p.m * RandDenom = k * 10^(0 - p.x)

\* C8: readdir of "/" returns exactly ".", "..", "exist"; readdir of any
\* other path returns ".", ".." and the text of one freshly drawn value in
\* [0, 1); it never fails and never asks _exists, also for a path that never
\* exists.
C8_Listing ==
    call.op = "readdir" =>
        /\ ret.err = "OK"
        /\ ~oracle.called
        /\ Len(ret.val) = 3 /\ ret.val[1] = <<".">> /\ ret.val[2] = <<".", ".">>
        /\ IF call.path = <<"/">>
           THEN ret.val[3] = <<"e", "x", "i", "s", "t">> /\ rng = 0
           ELSE IsDrawText(ret.val[3]) /\ rng = 1

\* readdir of the never-existing "/exist/a" has listed "0.75"-like text
C8_Witness ==
    /\ call.op = "readdir"
    /\ call.path = Entry(<<"a">>)
    /\ ret.err = "OK"
    /\ ret.val[3] = str(MaxDraw)

\* C9 as stated: each call of the existence oracle takes one draw from the
\* random source, for every path category.
C9_OneDrawPerCall == oracle.called => oracle.draws = 1

\* C9 as amended: a call of the existence oracle takes one draw when the
\* path is a probability entry and none otherwise ("/", "/exist", malformed);
\* access draws nothing else, getattr draws four more values on success, and
\* no call changes the uid or gid.
C9_DrawOnlyForEntries ==
    /\ [](oracle.called =>
            /\ oracle.draws = (IF ProbabilityEntry(call.path) THEN 1 ELSE 0)
            /\ call.op = "access" => rng = oracle.draws
            /\ call.op = "getattr" =>
                   rng = oracle.draws + (IF ret.err = "OK" THEN 4 ELSE 0))
    /\ [][uid' = uid /\ gid' = gid]_vars

\* _exists has answered for "/" and for a malformed entry without a draw
C9_Witness ==
    /\ oracle.called
    /\ ~ProbabilityEntry(call.path)
    /\ oracle.draws = 0
    /\ rng \in {0, 4}

-----------------------------------------------------------------------------
(* The claims about repeated and concurrent queries, on the concurrent     *)
(* specification.  One caller that calls access and then getattr is the    *)
(* behaviour in which the first handler returns before the second is       *)
(* invoked.                                                                *)

Probability(path) == float(SubSeq(path, 8, Len(path)))

\* a probability entry with 0 < p < 1
Fraction(path) ==
    /\ ProbabilityEntry(path)
    /\ Probability(path).m > 0
    /\ Probability(path).x < 0
    /\ Probability(path).m < 10^(0 - Probability(path).x)

\* a probability entry with 0 < p < MaxDraw / RandDenom, the largest draw
BelowLargestDraw(path) ==
    /\ Fraction(path)
    /\ Probability(path).m * RandDenom < MaxDraw * 10^(0 - Probability(path).x)

Asked(t, op, path) ==
    thr[t].pc = "called" /\ thr[t].op = op /\ thr[t].path = path

Answered(t, op, path, errno) ==
    thr[t].pc = "done" /\ thr[t].op = op /\ thr[t].path = path /\ thr[t].err = errno

GetattrFails(t) == t_getattr(t) /\ thr'[t].err = "ENOENT"

GetattrSucceeds(t) == t_getattr(t) /\ thr'[t].pc = "run"

\* after an access of the path that succeeded a getattr of it can fail, and
\* after one that failed for want of existence a getattr of it can succeed
Flips(path) ==
    \A t, u \in Threads :
        (t # u /\ Asked(t, "getattr", path)) =>
            /\ Answered(u, "access", path, "OK") => ENABLED GetattrFails(t)
            /\ (Answered(u, "access", path, "EACCES") /\ thr[u].mode = 0)
                   => ENABLED GetattrSucceeds(t)

Busy(t) == thr[t].pc \in {"called", "run"}

\* no handler waits for another thread or for a lock
NoWaiting == \A t \in Threads : Busy(t) => ENABLED Step(t)

\* thread t is about to ask _exists about the path
AtRoll(t, path) ==
    /\ thr[t].pc = "called"
    /\ thr[t].path = path
    /\ thr[t].op = "getattr" \/ (thr[t].op = "access" /\ thr[t].mode = 0)

\* thread t has asked or is about to ask _exists about the path
Querying(t, path) ==
    /\ thr[t].path = path
    /\ thr[t].op = "getattr" \/ (thr[t].op = "access" /\ thr[t].mode = 0)

\* the step of thread t in which _exists answers v
Rolls(t, v) == (t_access(t) \/ t_getattr(t)) /\ ((thr'[t].err = "OK") <=> v)

\* whatever another query of the same path has got or will get, a query of
\* it can get either verdict
Independent(path) ==
    \A t, u \in Threads :
        (t # u /\ AtRoll(t, path) /\ Querying(u, path)) =>
            ENABLED Rolls(t, TRUE) /\ ENABLED Rolls(t, FALSE)

====
